---- MODULE Spec2Model ----
(***************************************************************************)
(* mp3codec~: the frame-synchronous transcode and ring-buffer pipeline of  *)
(* src/mp3codec~.c, as a state machine of two threads: the real-time audio *)
(* thread (mp3codec_perform64) and the control thread (the message         *)
(* handlers), which share the fields of t_mp3codec without any lock.       *)
(*                                                                         *)
(* Sizes.  The source's buffer sizes (1152, 8192, 16384) are kept as       *)
(* named definitions but at a reduced scale, so that TLC enumerates every  *)
(* block size, every encoder and decoder return value and every            *)
(* interleaving; the code uses them only through comparisons and index     *)
(* arithmetic, which the model keeps verbatim.                             *)
(*                                                                         *)
(* Samples.  A float or double sample is the integer v standing for        *)
(* v / 32767, so float_to_short is the clamp it is in the source and       *)
(* short_to_float maps the short s to the float s / 32767, written s.      *)
(***************************************************************************)
EXTENDS Integers, Sequences, FiniteSets, TLC

\* ------------------------------------------------------------------ sizes
\* MPEG1 frame size in samples (source: 1152), scaled.
MP3_FRAME_SIZE == 2
\* size of the encoder's output buffer in bytes (source: 8192), scaled.
MP3_BUFFER_SIZE == 2
\* PCM buffers hold four frames.
PCM_BUFFER_SIZE == MP3_FRAME_SIZE * 4
\* size of the byte accumulator (source: 16384), scaled.
DECODE_BUFFER_SIZE == 3
\* the largest host block of the general specifications.
MaxBlock == 3
\* the control thread handles at most this many messages in a behaviour.
MaxMsgs == 1
\* the host makes at most this many perform64 calls in a behaviour of the
\* two-thread specification.
MaxCalls == 2

QUALITY_BITRATES == <<320, 256, 192, 160, 128, 112, 96, 64, 40, 32>>

SHORT_MAX == 32767
SHORT_MIN == -32768
HIP_DECODER_DELAY == 528

NULL == <<>>

\* ---------------------------------------------------------------- helpers
CLAMP(v, lo, hi) == IF v < lo THEN lo ELSE IF v > hi THEN hi ELSE v

\* a buffer of n elements as sysmem_newptrclear returns it, indexed from 0
NewPtrClear(n) == [i \in 0..(n - 1) |-> 0]

float_to_short(sample) ==
    LET value == sample
    IN  IF value > SHORT_MAX THEN SHORT_MAX
        ELSE IF value < SHORT_MIN THEN SHORT_MIN ELSE value

short_to_float(sample) == sample

\* ------------------------------------------------------- the environment
\* The host's input signal: the sample at stream position k of each channel.
\* One sample per period is at full scale, so that a gain above 1 clips.
StreamPeriod == 2 * MP3_FRAME_SIZE
InL(k) == IF k % StreamPeriod = 0 THEN SHORT_MAX ELSE k % StreamPeriod
InR(k) == -InL(k)

\* Block sizes the host may call perform64 with.
BlockSizes == 0..MaxBlock

\* What lame_encode_buffer may return: an error (< 0), no bytes yet, or up
\* to a full output buffer.
EncodeResults == {-1, 0, 1, MP3_BUFFER_SIZE}
\* What hip_decode may return: an error, need-more-data, or the samples of
\* every frame its input completes (one frame, or two after a need-more-data).
DecodeResults == {-1, 0, MP3_FRAME_SIZE, 2 * MP3_FRAME_SIZE}
\* The decoder's output signal: the k-th sample it ever produced.
DecPeriod == 2 * PCM_BUFFER_SIZE
DecL(k) == (k % DecPeriod) + 1
DecR(k) == -DecL(k)
\* the delays lame_get_encoder_delay may report
EncoderDelays == {576, 1105}

\* the input and output gain the constructor is given
GainArgs == {<<2, 3>>}
SampleRates == {44100, 48000}
ToggleNames == {"lowpass", "highpass", "ms_stereo", "ath_only",
                "experimental", "emphasis"}
AllOn == [t \in ToggleNames |-> 1]

\* ------------------------------------------------------------------ state
VARIABLES
    \* t_mp3codec
    gfp, hip,
    quality, input_gain, output_gain, bypass,
    enable,
    sample_rate, initialized,
    encode_buffer_left, encode_buffer_right, encode_buffer_fill,
    mp3_accumulator, mp3_accumulator_fill,
    decode_pcm_left, decode_pcm_right,
    output_ring_left, output_ring_right,
    ring_write_pos, ring_read_pos, ring_size,
    latency,
    decode_delay_compensation,
    \* the host's input stream position
    in_pos,
    \* mp3codec_perform64: its position, arguments and locals
    rt_pc, sampleframes, ins_base, outs_left, outs_right,
    samples_processed, mp3_bytes, mp3_buffer, pcm_left, pcm_right,
    \* the control thread: its position, the handler it runs and its locals
    ctl_pc, ctl_msg, old_quality, init_caller, init_result, msgs,
    \* the last list sent out of the analysis outlet, and the history of
    \* the message being handled
    analysis_outlet, ctl_hist,
    \* the perform64 calls the host still makes (-1: without limit)
    calls_left,
    \* history
    fault, slept, hist

obj_cfg == <<quality, input_gain, output_gain, bypass, enable, sample_rate>>
obj_codec == <<gfp, hip>>
obj_enc == <<encode_buffer_left, encode_buffer_right, encode_buffer_fill>>
obj_acc == <<mp3_accumulator, mp3_accumulator_fill>>
obj_dec == <<decode_pcm_left, decode_pcm_right>>
obj_ring == <<output_ring_left, output_ring_right, ring_write_pos,
              ring_read_pos, ring_size>>
obj_lat == <<latency, decode_delay_compensation>>
rt_vars == <<rt_pc, sampleframes, ins_base, outs_left, outs_right,
             samples_processed, mp3_bytes, mp3_buffer, pcm_left, pcm_right>>
ctl_vars == <<ctl_pc, ctl_msg, old_quality, init_caller, init_result, msgs,
              analysis_outlet, ctl_hist>>
vars == <<obj_cfg, obj_codec, initialized, obj_enc, obj_acc, obj_dec,
          obj_ring, obj_lat, in_pos, rt_vars, ctl_vars, calls_left, fault,
          slept, hist>>

\* --------------------------------------------------- the codec engine
\* lame_init .. lame_init_params: the encoder handle built for a
\* configuration; `delay` is what lame_get_encoder_delay reports for it.
LowpassFreq(q) ==
    IF QUALITY_BITRATES[q + 1] <= 32 THEN 4000
    ELSE IF QUALITY_BITRATES[q + 1] <= 64 THEN 6000 ELSE 8000

NewEncoder(q, en, sr, d) ==
    [quality |-> q, enable |-> en, rate |-> sr,
     brate |-> QUALITY_BITRATES[q + 1],
     lowpass |-> IF en["lowpass"] # 0 THEN LowpassFreq(q) ELSE 0,
     delay |-> d]

\* hip_decode_init: a decoder at the start of its output signal
NewDecoder == [pos |-> 0]

\* The latency summary init_processor stores (lines 367-374).  The
\* milliseconds are the quotient of the pair <<numerator, denominator>>.
LatencyOf(encoder) ==
    [lame_encoder_delay |-> encoder.delay,
     lame_decoder_delay |-> HIP_DECODER_DELAY,
     buffer_latency_samples |-> MP3_FRAME_SIZE,
     total_latency_samples |->
         encoder.delay + HIP_DECODER_DELAY + MP3_FRAME_SIZE,
     total_latency_ms |->
         <<(encoder.delay + HIP_DECODER_DELAY + MP3_FRAME_SIZE) * 1000,
           encoder.rate>>]

NoLatency ==
    [lame_encoder_delay |-> 0, lame_decoder_delay |-> 0,
     buffer_latency_samples |-> 0, total_latency_samples |-> 0,
     total_latency_ms |-> <<0, 1>>]

\* ---------------------------------------------------------------- history
\* What the checks need to remember and the program does not store:
\*   step     the step of perform64 taken last
\*   result   what the encoder or decoder returned in that step
\*   pending  samples given to the frame accumulator and not yet handed
\*            to the encoder in a frame
\*   steady   since the last build every frame was encoded to some bytes
\*            and its decode returned one frame of samples
\*   lead     ring samples written minus ring samples read, while steady
\*   it       the ring traffic of the current iteration: the number of
\*            decodes that wrote, the cursors before the first one, its count
\*   dropped  the accumulator has dropped a chunk since it was last emptied
\*   echo     the last output loop read sampleframes samples right after
\*            the iteration's only write, of as many samples, at the cursor
\*            the read started from, neither of them wrapping
\*   written  the ring cells written since the rings were allocated
NoIt == [writes |-> 0, wstart |-> 0, rstart |-> 0, count |-> 0]
InitHist ==
    [step |-> "none", result |-> 0, pending |-> 0, steady |-> TRUE,
     lead |-> 0, echo |-> FALSE,
     it |-> NoIt, dropped |-> FALSE, written |-> {}]

\* the count cells of a ring of size cells from cursor pos on
CellsFrom(pos, count, size) ==
    IF size = 0 THEN {} ELSE {(pos + i) % size : i \in 0..(count - 1)}

\* What the checks need to remember about the message being handled:
\*   before    the configuration when the handler was entered
\*   errors    the error() reports made since then, by the place they
\*             are made at
\*   builds    the calls of init_processor made since then
\*   params    what the calls of lame_init_params made by the last
\*             init_processor returned, in order: TRUE for accepted
\*   during    the perform64 call that was under way when the handler
\*             cleared `initialized`: the calls the host had left and the
\*             samples of the block copied by then; NoCall if none was
\*   freed     what the two rings held when cleanup_processor last freed
\*             them for this message; NULL if it freed none
NoCall == <<>>
NoMessage ==
    [before |-> <<>>, errors |-> {}, builds |-> 0, params |-> <<>>,
     during |-> NoCall, freed |-> <<NULL, NULL>>]

Entering(cfg) ==
    [before |-> cfg, errors |-> {}, builds |-> 0, params |-> <<>>,
     during |-> NoCall, freed |-> <<NULL, NULL>>]

\* entering a handler that clears `initialized` first
Clearing(cfg) ==
    [Entering(cfg) EXCEPT
        !.during = IF rt_pc \in {"idle", "crashed"} THEN NoCall
                   ELSE <<calls_left, samples_processed>>]

Reporting(h, place) == [h EXCEPT !.errors = @ \cup {place}]

\* ------------------------------------------------------------------- Init
\* The object as mp3codec_new leaves it (lines 162-224): parameters from the
\* constructor arguments, then one init_processor, which succeeds or fails
\* (and is then cleaned up).  No audio runs during construction.
InitQualities == {5}

Built(d) ==
    /\ gfp = NewEncoder(quality, enable, sample_rate, d)
    /\ hip = NewDecoder
    /\ encode_buffer_left = NewPtrClear(PCM_BUFFER_SIZE)
    /\ encode_buffer_right = NewPtrClear(PCM_BUFFER_SIZE)
    /\ mp3_accumulator = NewPtrClear(DECODE_BUFFER_SIZE)
    /\ decode_pcm_left = NewPtrClear(PCM_BUFFER_SIZE)
    /\ decode_pcm_right = NewPtrClear(PCM_BUFFER_SIZE)
    /\ ring_size = MP3_FRAME_SIZE * 4
    /\ output_ring_left = NewPtrClear(MP3_FRAME_SIZE * 4)
    /\ output_ring_right = NewPtrClear(MP3_FRAME_SIZE * 4)
    /\ latency = LatencyOf(NewEncoder(quality, enable, sample_rate, d))
    /\ initialized = 1

Unbuilt ==
    /\ gfp = NULL /\ hip = NULL
    /\ encode_buffer_left = NULL /\ encode_buffer_right = NULL
    /\ mp3_accumulator = NULL
    /\ decode_pcm_left = NULL /\ decode_pcm_right = NULL
    /\ output_ring_left = NULL /\ output_ring_right = NULL
    /\ ring_size = 0
    /\ latency = NoLatency
    /\ initialized = 0

Constructed ==
    /\ quality \in InitQualities
    /\ \E g \in GainArgs : input_gain = g[1] /\ output_gain = g[2]
    /\ bypass \in {0, 1}
    /\ enable = AllOn
    /\ sample_rate = 44100
    /\ (Unbuilt \/ Built(576))
    /\ encode_buffer_fill = 0 /\ mp3_accumulator_fill = 0
    /\ ring_write_pos = 0 /\ ring_read_pos = 0
    /\ decode_delay_compensation = 0
    /\ in_pos = 0
    /\ rt_pc = "idle" /\ sampleframes = 0 /\ ins_base = 0
    /\ outs_left = <<>> /\ outs_right = <<>>
    /\ samples_processed = 0 /\ mp3_bytes = 0 /\ mp3_buffer = <<>>
    /\ pcm_left = NewPtrClear(MP3_FRAME_SIZE)
    /\ pcm_right = NewPtrClear(MP3_FRAME_SIZE)
    /\ ctl_pc = "idle" /\ ctl_msg = <<"none", 0>> /\ old_quality = 0
    /\ init_caller = "none" /\ init_result = 0
    /\ analysis_outlet = NULL /\ ctl_hist = NoMessage
    /\ fault = FALSE /\ slept = FALSE /\ hist = InitHist

Init == Constructed /\ calls_left = MaxCalls /\ msgs = 0

\* ------------------------------------------------ mp3codec_perform64
\* A host array not yet written by this call.
Unwritten == SHORT_MAX * 8
\* What a read through a destroyed buffer or handle yields when it does
\* not crash.
Garbage == SHORT_MAX * 9

\* a stand-in for Silence: the loop stops one sample early
SilenceButLast(n) == [i \in 0..(n - 2) |-> 0]

\* lines 463-466, 492-495: n samples of silence
Silence(n) == [i \in 0..(n - 1) |-> 0]

Step(name) == [hist EXCEPT !.step = name, !.result = 0, !.echo = FALSE]

\* The locals of the full-frame block (lines 542-543) end with it.
BlockLocalsGone ==
    /\ pcm_left' = NewPtrClear(MP3_FRAME_SIZE)
    /\ pcm_right' = NewPtrClear(MP3_FRAME_SIZE)

\* The locals of perform64 (lines 502-504) end with the call.
LocalsGone ==
    /\ samples_processed' = 0
    /\ mp3_bytes' = 0
    /\ mp3_buffer' = <<>>

\* a stand-in for SilentReturn: the silent path also empties the frame
\* accumulator
SilentReturnFlushing(n) ==
    /\ outs_left' = Silence(n)
    /\ outs_right' = Silence(n)
    /\ rt_pc' = "idle"
    /\ hist' = Step("silence_uninit")
    /\ encode_buffer_fill' = 0
    /\ UNCHANGED <<obj_codec, encode_buffer_left, encode_buffer_right,
                   obj_acc, obj_dec, obj_ring>>

\* lines 460-468: a call that finds `initialized` clear writes silence
\* and returns
SilentReturn(n) ==
    /\ outs_left' = Silence(n)
    /\ outs_right' = Silence(n)
    /\ rt_pc' = "idle"
    /\ hist' = Step("silence_uninit")
    /\ UNCHANGED <<obj_codec, obj_enc, obj_acc, obj_dec, obj_ring>>

\* lines 456-468: the call and its check of `initialized`.  An iteration
\* that finds it clear writes silence and returns in the same step.
perform64_enter(n) ==
    /\ rt_pc = "idle"
    /\ calls_left # 0
    /\ calls_left' = IF calls_left > 0 THEN calls_left - 1 ELSE calls_left
    /\ sampleframes' = n
    /\ ins_base' = in_pos
    /\ in_pos' = (in_pos + n) % StreamPeriod
    /\ IF initialized = 0
       THEN SilentReturn(n)
       ELSE /\ outs_left' = [i \in 0..(n - 1) |-> Unwritten]
            /\ outs_right' = [i \in 0..(n - 1) |-> Unwritten]
            /\ rt_pc' = "bypass_check"
            /\ hist' = Step("enter")
            /\ UNCHANGED <<obj_codec, obj_enc, obj_acc, obj_dec, obj_ring>>
    /\ UNCHANGED <<obj_cfg, initialized, obj_lat, samples_processed,
                   mp3_bytes, mp3_buffer, pcm_left, pcm_right, ctl_vars,
                   fault, slept>>

\* lines 480-481: what bypass writes for an input sample
PassedInputGainOnly(sample, in_gain, out_gain) == sample * in_gain

Passed(sample, in_gain, out_gain) == sample * in_gain * out_gain

\* a stand-in for Bypassed: the flag is not looked at
BypassedNever(flag) == FALSE

\* line 474: the test of the bypass flag
Bypassed(flag) == flag # 0

\* lines 474-486: bypass passes the input to the output, both gains applied.
perform64_bypass ==
    /\ rt_pc = "bypass_check"
    /\ IF Bypassed(bypass)
       THEN /\ outs_left' = [i \in 0..(sampleframes - 1) |->
                 Passed(InL(ins_base + i), input_gain, output_gain)]
            /\ outs_right' = [i \in 0..(sampleframes - 1) |->
                 Passed(InR(ins_base + i), input_gain, output_gain)]
            /\ rt_pc' = "idle"
            /\ hist' = Step("bypass")
       ELSE /\ rt_pc' = "check_buffers"
            /\ hist' = Step("bypass_check")
            /\ UNCHANGED <<outs_left, outs_right>>
    /\ UNCHANGED <<obj_cfg, obj_codec, initialized, obj_enc, obj_acc,
                   obj_dec, obj_ring, obj_lat, in_pos, sampleframes,
                   ins_base, samples_processed, mp3_bytes, mp3_buffer,
                   pcm_left, pcm_right, ctl_vars, calls_left, fault,
                   slept>>

\* lines 488-504: the check of the four buffer pointers, then the locals.
perform64_check_buffers ==
    /\ rt_pc = "check_buffers"
    /\ IF \/ encode_buffer_left = NULL \/ encode_buffer_right = NULL
          \/ output_ring_left = NULL \/ output_ring_right = NULL
       THEN /\ outs_left' = Silence(sampleframes)
            /\ outs_right' = Silence(sampleframes)
            /\ rt_pc' = "idle"
            /\ hist' = Step("silence_nullbuf")
            /\ UNCHANGED <<mp3_bytes, samples_processed>>
       ELSE /\ mp3_bytes' = 0
            /\ samples_processed' = 0
            /\ rt_pc' = "loop"
            /\ hist' = [Step("check_buffers") EXCEPT
                            !.pending = @ + sampleframes, !.it = NoIt]
            /\ UNCHANGED <<outs_left, outs_right>>
    /\ UNCHANGED <<obj_cfg, obj_codec, initialized, obj_enc, obj_acc,
                   obj_dec, obj_ring, obj_lat, in_pos, sampleframes,
                   ins_base, mp3_buffer, pcm_left, pcm_right, ctl_vars,
                   calls_left, fault, slept>>

\* a stand-in for SamplesToCopy: the copy is not limited to the space left
\* in the frame
SamplesToCopyUnclamped(n, processed, fill) == n - processed

\* a stand-in for SamplesToCopy: the space left is taken one too small
SamplesToCopyOneLess(n, processed, fill) ==
    LET samples_to_copy == n - processed
        buffer_space == MP3_FRAME_SIZE - fill - 1
    IN  IF samples_to_copy > buffer_space THEN buffer_space
        ELSE samples_to_copy

\* lines 508-513: how many samples one pass of the loop copies
SamplesToCopy(n, processed, fill) ==
    LET samples_to_copy == n - processed
        buffer_space == MP3_FRAME_SIZE - fill
    IN  IF samples_to_copy > buffer_space THEN buffer_space
        ELSE samples_to_copy

\* lines 516-521: the copy into one encode buffer at the fill offset
CopyIn(buf, fill, count, ins, base, gain) ==
    [i \in DOMAIN buf |->
        IF fill <= i /\ i < fill + count
        THEN ins[base + (i - fill)] * gain
        ELSE buf[i]]

\* the host's two input arrays for the call
Ins0 == [i \in 0..(sampleframes - 1) |-> InL(ins_base + i)]
Ins1 == [i \in 0..(sampleframes - 1) |-> InR(ins_base + i)]

\* lines 507-527: the loop test and one pass of the copy.  A write through
\* a destroyed buffer is lost (when it does not crash: perform64_crash).
perform64_copy ==
    /\ rt_pc = "loop"
    /\ IF samples_processed < sampleframes
       THEN LET n == SamplesToCopy(sampleframes, samples_processed,
                                   encode_buffer_fill)
                live == encode_buffer_left # NULL
                           /\ encode_buffer_right # NULL
            IN  /\ encode_buffer_left' =
                       IF live
                       THEN CopyIn(encode_buffer_left, encode_buffer_fill, n,
                                   Ins0, samples_processed, input_gain)
                       ELSE encode_buffer_left
                /\ encode_buffer_right' =
                       IF live
                       THEN CopyIn(encode_buffer_right, encode_buffer_fill,
                                   n, Ins1, samples_processed, input_gain)
                       ELSE encode_buffer_right
                /\ encode_buffer_fill' = encode_buffer_fill + n
                /\ samples_processed' = samples_processed + n
                /\ rt_pc' = IF encode_buffer_fill + n >= MP3_FRAME_SIZE
                            THEN "frame_check" ELSE "loop"
                /\ fault' = (fault \/ (n > 0 /\ ~live))
                /\ hist' = Step("copy")
       ELSE /\ rt_pc' = "output"
            /\ hist' = Step("loop_exit")
            /\ UNCHANGED <<obj_enc, samples_processed, fault>>
    /\ UNCHANGED <<obj_cfg, obj_codec, initialized, obj_acc, obj_dec,
                   obj_ring, obj_lat, in_pos, sampleframes, ins_base,
                   outs_left, outs_right, mp3_bytes, mp3_buffer, pcm_left,
                   pcm_right, ctl_vars, calls_left, slept>>

\* lines 531-539: a full frame, but the codec is not ready: the frame is
\* discarded and the loop left.
perform64_frame_check ==
    /\ rt_pc = "frame_check"
    /\ IF initialized = 0 \/ gfp = NULL \/ hip = NULL
       THEN /\ encode_buffer_fill' = 0
            /\ rt_pc' = "output"
            /\ hist' = [Step("break") EXCEPT !.pending = 0]
       ELSE /\ rt_pc' = "encode"
            /\ hist' = Step("frame_check")
            /\ UNCHANGED encode_buffer_fill
    /\ UNCHANGED <<obj_cfg, obj_codec, initialized, encode_buffer_left,
                   encode_buffer_right, obj_acc, obj_dec, obj_ring, obj_lat,
                   in_pos, sampleframes, ins_base, outs_left, outs_right,
                   samples_processed, mp3_bytes, mp3_buffer, pcm_left,
                   pcm_right, ctl_vars, calls_left, fault, slept>>

\* lines 545-548: the frame converted for the encoder
ToPcm(buf) ==
    [i \in 0..(MP3_FRAME_SIZE - 1) |->
        IF buf = NULL THEN Garbage ELSE float_to_short(buf[i])]

\* lame_encode_buffer's output for a return value of r: the r bytes of a
\* chunk, each told from the others by its place in the chunk
Chunk(encoder, r) ==
    IF r > 0 THEN [i \in 0..(r - 1) |->
                      IF encoder = NULL THEN Garbage ELSE i + 1]
    ELSE <<>>

\* a stand-in for GotData: an empty chunk is passed on as well
GotDataOrNone(bytes) == bytes >= 0

\* line 575: the encoder returned bytes to decode
GotData(bytes) == bytes > 0

\* lines 541-575: convert, encode (lame_encode_buffer returns r), reset the
\* fill.
perform64_encode(r) ==
    /\ rt_pc = "encode"
    /\ IF GotData(r)
       THEN /\ pcm_left' = ToPcm(encode_buffer_left)
            /\ pcm_right' = ToPcm(encode_buffer_right)
       ELSE BlockLocalsGone
    /\ mp3_bytes' = r
    /\ mp3_buffer' = Chunk(gfp, r)
    /\ rt_pc' = IF GotData(r) THEN "accumulate" ELSE "loop"
    /\ encode_buffer_fill' = 0
    /\ fault' = (fault \/ gfp = NULL \/ encode_buffer_left = NULL
                       \/ encode_buffer_right = NULL)
    /\ hist' = [hist EXCEPT !.step = "encode",
                            !.result = r,
                            !.pending = @ - MP3_FRAME_SIZE,
                            !.steady = @ /\ r > 0,
                            !.lead = IF hist.steady /\ r > 0 THEN @ ELSE 0]
    /\ UNCHANGED <<obj_cfg, obj_codec, initialized, encode_buffer_left,
                   encode_buffer_right, obj_acc, obj_dec, obj_ring, obj_lat,
                   in_pos, sampleframes, ins_base, outs_left, outs_right,
                   samples_processed, ctl_vars, calls_left, slept>>

\* a stand-in for Fits: the capacity is not checked
FitsAlways(fill, bytes) == TRUE

\* lines 577-582: the chunk appended to the accumulator, or dropped whole
Fits(fill, bytes) == fill + bytes < DECODE_BUFFER_SIZE

AppendChunk(acc, fill, chunk, bytes) ==
    [i \in DOMAIN acc |->
        IF fill <= i /\ i < fill + bytes THEN chunk[i - fill] ELSE acc[i]]

perform64_accumulate ==
    /\ rt_pc = "accumulate"
    /\ IF Fits(mp3_accumulator_fill, mp3_bytes)
       THEN /\ mp3_accumulator' =
                  IF mp3_accumulator = NULL THEN mp3_accumulator
                  ELSE AppendChunk(mp3_accumulator, mp3_accumulator_fill,
                                   mp3_buffer, mp3_bytes)
            /\ mp3_accumulator_fill' = mp3_accumulator_fill + mp3_bytes
            /\ fault' = (fault \/ mp3_accumulator = NULL)
            /\ hist' = Step("append")
       ELSE /\ hist' = [Step("drop") EXCEPT !.dropped = TRUE]
            /\ UNCHANGED <<obj_acc, fault>>
    /\ rt_pc' = "decode"
    /\ UNCHANGED <<obj_cfg, obj_codec, initialized, obj_enc, obj_dec,
                   obj_ring, obj_lat, in_pos, sampleframes, ins_base,
                   outs_left, outs_right, samples_processed, mp3_bytes,
                   mp3_buffer, pcm_left, pcm_right,
                   ctl_vars, calls_left, slept>>

\* hip_decode's PCM output for a return value of r: the next r samples of
\* the decoder's signal at the head of the buffer
DecodeInto(buf, decoder, r, signal) ==
    IF buf = NULL \/ r <= 0 THEN buf
    ELSE [i \in DOMAIN buf |->
             IF i < r
             THEN (IF decoder = NULL THEN Garbage ELSE signal[decoder.pos + i])
             ELSE buf[i]]

\* the decoder's two output signals, as far as one call can reach
SignalL == [k \in 0..(2 * DecPeriod) |-> DecL(k)]
SignalR == [k \in 0..(2 * DecPeriod) |-> DecR(k)]

\* a stand-in for AdvanceCursor: the cursor is not wrapped
AdvanceCursorNoWrap(pos, size) == pos + 1

\* lines 599-602: the write cursor after one sample
AdvanceCursor(pos, size) == IF pos + 1 >= size THEN 0 ELSE pos + 1

\* lines 594-603: the decoded samples written at the write cursor, one at
\* a time; the result is the ring and the cursor after sample i..count-1
RECURSIVE RingWrite(_, _, _, _, _, _)
RingWrite(ring, pos, pcm, i, count, size) ==
    IF i >= count THEN [ring |-> ring, pos |-> pos]
    ELSE RingWrite(IF ring = NULL THEN ring
                   ELSE [ring EXCEPT ![pos] =
                            IF pcm = NULL THEN Garbage
                            ELSE short_to_float(pcm[i])],
                   AdvanceCursor(pos, size), pcm, i + 1, count, size)

\* a stand-in for FillAfterDecode: a decode error keeps the bytes
FillKeptOnError(fill, r) == IF r > 0 THEN 0 ELSE fill

\* lines 591-623: what the decode result does to the accumulator fill
FillAfterDecode(fill, r) == IF r = 0 THEN fill ELSE 0

\* lines 584-623: one decode attempt on the accumulator (hip_decode returns
\* r) and its outcome.
perform64_decode(r) ==
    /\ rt_pc = "decode"
    /\   LET pl == DecodeInto(decode_pcm_left, hip, r, SignalL)
              pr == DecodeInto(decode_pcm_right, hip, r, SignalR)
              wl == RingWrite(output_ring_left, ring_write_pos, pl, 0, r,
                              ring_size)
              wr == RingWrite(output_ring_right, ring_write_pos, pr, 0, r,
                              ring_size)
              st == hist.steady /\ r = MP3_FRAME_SIZE
          IN  /\ decode_pcm_left' = pl
              /\ decode_pcm_right' = pr
              /\ hip' = IF hip = NULL \/ r <= 0 THEN hip
                        ELSE [hip EXCEPT !.pos = (@ + r) % DecPeriod]
              /\ output_ring_left' = wl.ring
              /\ output_ring_right' = wr.ring
              /\ ring_write_pos' = wl.pos
              /\ mp3_accumulator_fill' =
                     FillAfterDecode(mp3_accumulator_fill, r)
              /\ fault' = (fault \/ hip = NULL \/ mp3_accumulator = NULL
                                 \/ decode_pcm_left = NULL
                                 \/ decode_pcm_right = NULL
                                 \/ (r > 0 /\ (output_ring_left = NULL
                                               \/ output_ring_right = NULL)))
              /\ hist' = [hist EXCEPT
                     !.step = "decode",
                     !.result = r,
                     !.steady = st,
                     !.lead = IF st THEN @ + r ELSE 0,
                     !.dropped = IF r = 0 THEN @ ELSE FALSE,
                     !.written = IF r <= 0 \/ output_ring_left = NULL THEN @
                                 ELSE @ \cup CellsFrom(ring_write_pos, r,
                                                       ring_size),
                     !.it = IF r <= 0 THEN @
                            ELSE IF @.writes = 0
                            THEN [writes |-> 1, wstart |-> ring_write_pos,
                                  rstart |-> ring_read_pos, count |-> r]
                            ELSE [@ EXCEPT !.writes = 2]]
    /\ rt_pc' = "loop"
    /\ BlockLocalsGone
    /\ UNCHANGED <<obj_cfg, gfp, initialized, obj_enc, mp3_accumulator,
                   ring_read_pos, ring_size, obj_lat, in_pos, sampleframes,
                   ins_base, outs_left, outs_right, samples_processed,
                   mp3_bytes, mp3_buffer, ctl_vars, calls_left, slept>>

\* lines 632-636: the samples between the cursors
Available(wpos, rpos, size) ==
    IF wpos >= rpos THEN wpos - rpos ELSE (size - rpos) + wpos

\* a stand-in for GatePasses: the gate waits for the reported latency
GatePassesWhenFilled(available) ==
    available > latency.total_latency_samples

\* line 644: the read gate
GatePasses(available) ==
    available > latency.total_latency_samples
        \/ decode_delay_compensation = 0

\* lines 629-665: the output loop from sample i on: each sample is read at
\* the read cursor if the gate passes, and is silence otherwise.
\* a stand-in for ReadSample: the cursor is advanced before the read
ReadSampleAfterAdvance(ring, rpos) ==
    IF ring = NULL THEN Garbage
    ELSE ring[AdvanceCursor(rpos, ring_size)] * output_gain

\* lines 646-647: the sample at the read cursor, output gain applied
ReadSample(ring, rpos) ==
    IF ring = NULL THEN Garbage ELSE ring[rpos] * output_gain

RECURSIVE OutputLoop(_, _, _, _, _)
OutputLoop(i, rpos, outl, outr, reads) ==
    IF i >= sampleframes
    THEN [left |-> outl, right |-> outr, pos |-> rpos, reads |-> reads]
    ELSE IF GatePasses(Available(ring_write_pos, rpos, ring_size))
    THEN OutputLoop(i + 1, AdvanceCursor(rpos, ring_size),
            [outl EXCEPT ![i] = ReadSample(output_ring_left, rpos)],
            [outr EXCEPT ![i] = ReadSample(output_ring_right, rpos)],
            reads + 1)
    ELSE OutputLoop(i + 1, rpos, [outl EXCEPT ![i] = 0],
                    [outr EXCEPT ![i] = 0], reads)

perform64_output ==
    /\ rt_pc = "output"
    /\ LET out == OutputLoop(0, ring_read_pos, outs_left, outs_right, 0)
       IN  /\ outs_left' = out.left
           /\ outs_right' = out.right
           /\ ring_read_pos' = out.pos
           /\ fault' = (fault \/ (out.reads > 0
                                  /\ (output_ring_left = NULL
                                      \/ output_ring_right = NULL)))
           /\ hist' = [hist EXCEPT
                  !.step = IF @ = "break" THEN "output_after_break"
                           ELSE "output",
                  !.result = 0,
                  !.lead = IF hist.steady THEN @ - out.reads ELSE 0,
                  !.echo = /\ hist.it.writes = 1
                           /\ hist.it.count = sampleframes
                           /\ hist.it.wstart = ring_read_pos
                           /\ hist.it.wstart + sampleframes <= ring_size,
                  !.it = NoIt]
    /\ rt_pc' = "idle"
    /\ LocalsGone
    /\ UNCHANGED <<obj_cfg, obj_codec, initialized, obj_enc, obj_acc,
                   obj_dec, output_ring_left, output_ring_right,
                   ring_write_pos, ring_size, obj_lat, in_pos, sampleframes,
                   ins_base, pcm_left, pcm_right, ctl_vars, calls_left,
                   slept>>

\* An access through a destroyed buffer or handle is undefined: the call
\* goes on with garbage (the steps above) or the process dies here.
TouchesDestroyed ==
    \/ /\ rt_pc = "loop" /\ samples_processed < sampleframes
       /\ (encode_buffer_left = NULL \/ encode_buffer_right = NULL)
    \/ /\ rt_pc = "encode"
       /\ (gfp = NULL \/ encode_buffer_left = NULL
              \/ encode_buffer_right = NULL)
    \/ /\ rt_pc = "accumulate"
       /\ Fits(mp3_accumulator_fill, mp3_bytes) /\ mp3_accumulator = NULL
    \/ /\ rt_pc = "decode"
       /\ (hip = NULL \/ mp3_accumulator = NULL \/ decode_pcm_left = NULL
              \/ decode_pcm_right = NULL)
    \/ /\ rt_pc = "output" /\ sampleframes > 0
       /\ (output_ring_left = NULL \/ output_ring_right = NULL)

perform64_crash ==
    /\ TouchesDestroyed
    /\ rt_pc' = "crashed"
    /\ fault' = TRUE
    /\ hist' = Step("crash")
    /\ UNCHANGED <<obj_cfg, obj_codec, initialized, obj_enc, obj_acc,
                   obj_dec, obj_ring, obj_lat, in_pos, sampleframes,
                   ins_base, outs_left, outs_right, samples_processed,
                   mp3_bytes, mp3_buffer, pcm_left, pcm_right, ctl_vars,
                   calls_left, slept>>

\* ------------------------------------------------- the control thread
\* The control thread takes a message when it is idle and the process lives.
Ready == ctl_pc = "idle" /\ msgs < MaxMsgs /\ rt_pc # "crashed"
Running(pc) == ctl_pc = pc /\ rt_pc # "crashed"

Bool(n) == IF n # 0 THEN 1 ELSE 0

\* what the handlers leave alone
rt_side == <<in_pos, rt_vars, calls_left, fault, hist>>
obj_bufs == <<obj_enc, obj_acc, obj_dec, obj_ring>>

\* the message arguments tried
QualityArgs == {5, 12}
ToggleArgs == {0, 1}
BypassArgs == {0, 1}

\* lines 668-675: the quality message clears the flag and starts the sleep
mp3codec_quality(n) ==
    /\ Ready
    /\ ctl_msg' = <<"quality", n>>
    /\ initialized' = 0
    /\ ctl_pc' = "sleep"
    /\ msgs' = msgs + 1
    /\ slept' = FALSE
    /\ ctl_hist' = Clearing(obj_cfg)
    /\ UNCHANGED <<obj_cfg, obj_codec, obj_bufs, obj_lat, old_quality,
                   init_caller, init_result, rt_side,
                   analysis_outlet>>

\* lines 707-714: reset does the same
mp3codec_reset ==
    /\ Ready
    /\ ctl_msg' = <<"reset", 0>>
    /\ initialized' = 0
    /\ ctl_pc' = "sleep"
    /\ msgs' = msgs + 1
    /\ slept' = FALSE
    /\ ctl_hist' = Clearing(obj_cfg)
    /\ UNCHANGED <<obj_cfg, obj_codec, obj_bufs, obj_lat, old_quality,
                   init_caller, init_result, rt_side,
                   analysis_outlet>>

\* lines 726-796: a toggle handler stores its flag, clears `initialized`
\* and starts the sleep
Toggle(name, n) ==
    /\ Ready
    /\ ctl_msg' = <<name, n>>
    /\ enable' = [enable EXCEPT ![name] = Bool(n)]
    /\ initialized' = 0
    /\ ctl_pc' = "sleep"
    /\ msgs' = msgs + 1
    /\ slept' = FALSE
    /\ ctl_hist' = Clearing(obj_cfg)
    /\ UNCHANGED <<quality, input_gain, output_gain, bypass, sample_rate,
                   obj_codec, obj_bufs, obj_lat, old_quality, init_caller,
                   init_result, rt_side,
                   analysis_outlet>>

mp3codec_lowpass(n) == Toggle("lowpass", n)
mp3codec_highpass(n) == Toggle("highpass", n)
mp3codec_msstereo(n) == Toggle("ms_stereo", n)
mp3codec_athonly(n) == Toggle("ath_only", n)
mp3codec_experimental(n) == Toggle("experimental", n)
mp3codec_emphasis(n) == Toggle("emphasis", n)

\* systhread_sleep(50) returns: the grace period is over, whatever the
\* real-time thread is doing.  The quality handler goes on to its
\* comparison, the others call init_processor.
systhread_sleep ==
    /\ Running("sleep")
    /\ slept' = TRUE
    /\ IF ctl_msg[1] = "quality"
       THEN ctl_pc' = "apply" /\ UNCHANGED init_caller
       ELSE ctl_pc' = "cleanup_codec" /\ init_caller' = ctl_msg[1]
    /\ UNCHANGED <<obj_cfg, obj_codec, initialized, obj_bufs, obj_lat,
                   ctl_msg, old_quality, init_result, msgs, rt_side,
                   analysis_outlet, ctl_hist>>

\* line 683: the test that decides whether the codec is rebuilt
QualityChangedAlways(old, new) == TRUE

QualityChanged(old, new) == old # new

\* lines 677-699: the clamped value is stored; a changed quality calls
\* init_processor, an unchanged one only sets the flag again
mp3codec_quality_apply ==
    /\ Running("apply")
    /\ old_quality' = quality
    /\ quality' = CLAMP(ctl_msg[2], 0, 9)
    /\ IF QualityChanged(quality, CLAMP(ctl_msg[2], 0, 9))
       THEN /\ ctl_pc' = "cleanup_codec"
            /\ init_caller' = "quality"
            /\ UNCHANGED initialized
       ELSE /\ initialized' = 1
            /\ ctl_pc' = "idle"
            /\ UNCHANGED init_caller
    /\ UNCHANGED <<input_gain, output_gain, bypass, enable, sample_rate,
                   obj_codec, obj_bufs, obj_lat, ctl_msg, init_result, msgs,
                   slept, rt_side,
                   analysis_outlet, ctl_hist>>

\* lines 683-694: init_processor has returned to the quality handler; on
\* failure it reports, stores the previous quality again and calls
\* init_processor once more
mp3codec_quality_restore ==
    /\ Running("returned")
    /\ init_caller = "quality"
    /\ IF init_result < 0
       THEN /\ quality' = old_quality
            /\ ctl_pc' = "cleanup_codec"
            /\ init_caller' = "quality_restore"
            /\ ctl_hist' = Reporting(ctl_hist, "quality")
       ELSE /\ ctl_pc' = "idle"
            /\ UNCHANGED <<quality, init_caller, ctl_hist>>
    /\ UNCHANGED <<input_gain, output_gain, bypass, enable, sample_rate,
                   obj_codec, initialized, obj_bufs, obj_lat, ctl_msg,
                   old_quality, init_result, msgs, slept, rt_side,
                   analysis_outlet>>

\* The callers of init_processor that report its failure and do nothing
\* else: the quality handler after its second call (line 690) and reset
\* (line 719).  The toggles and dsp64 ignore the result.
ReportingCallers == {"quality_restore", "reset"}

\* init_processor has returned to any other caller (lines 689, 718, 735,
\* 446)
handler_return ==
    /\ Running("returned")
    /\ init_caller # "quality"
    /\ ctl_pc' = "idle"
    /\ ctl_hist' = IF init_result < 0 /\ init_caller \in ReportingCallers
                   THEN Reporting(ctl_hist, init_caller)
                   ELSE ctl_hist
    /\ UNCHANGED <<obj_cfg, obj_codec, initialized, obj_bufs, obj_lat,
                   ctl_msg, old_quality, init_caller, init_result, msgs,
                   slept, rt_side, analysis_outlet>>

\* lines 440-448: a changed sample rate is stored and init_processor called
\* at once
mp3codec_dsp64(samplerate) ==
    /\ Ready
    /\ ctl_msg' = <<"dsp64", samplerate>>
    /\ msgs' = msgs + 1
    /\ slept' = FALSE
    /\ IF sample_rate # samplerate
       THEN /\ sample_rate' = samplerate
            /\ ctl_pc' = "cleanup_codec"
            /\ init_caller' = "dsp64"
       ELSE UNCHANGED <<sample_rate, ctl_pc, init_caller>>
    /\ ctl_hist' = Entering(obj_cfg)
    /\ UNCHANGED <<quality, input_gain, output_gain, bypass, enable,
                   obj_codec, initialized, obj_bufs, obj_lat, old_quality,
                   init_result, rt_side,
                   analysis_outlet>>

\* lines 702-705
mp3codec_bypass(n) ==
    /\ Ready
    /\ ctl_msg' = <<"bypass", n>>
    /\ msgs' = msgs + 1
    /\ bypass' = Bool(n)
    /\ ctl_hist' = Entering(obj_cfg)
    /\ UNCHANGED <<quality, input_gain, output_gain, enable, sample_rate,
                   obj_codec, initialized, obj_bufs, obj_lat, ctl_pc,
                   old_quality, init_caller, init_result, slept, rt_side,
                   analysis_outlet>>

\* lines 798-830: the latency query sends the stored summary out of the
\* analysis outlet, unless the flag is clear
LatencyList(lat) ==
    <<lat.total_latency_ms, lat.total_latency_samples,
      lat.lame_encoder_delay, lat.lame_decoder_delay>>

mp3codec_latency ==
    /\ ctl_pc = "idle"
    /\ rt_pc # "crashed"
    /\ initialized # 0
    /\ analysis_outlet' = LatencyList(latency)
    /\ UNCHANGED <<obj_cfg, obj_codec, initialized, obj_bufs, obj_lat,
                   ctl_pc, ctl_msg, old_quality, init_caller, init_result,
                   msgs, ctl_hist, slept, rt_side>>

\* lines 385-400: cleanup_processor clears the flag and closes the handles
cleanup_codec ==
    /\ Running("cleanup_codec")
    /\ initialized' = 0
    /\ gfp' = NULL
    /\ hip' = NULL
    /\ ctl_pc' = "cleanup_buffers"
    /\ ctl_hist' = [ctl_hist EXCEPT !.builds = @ + 1, !.params = <<>>]
    /\ UNCHANGED <<obj_cfg, obj_bufs, obj_lat, ctl_msg, old_quality,
                   init_caller, init_result, msgs, slept, rt_side,
                   analysis_outlet>>

\* lines 402-437: it frees the seven buffers and resets the positions
cleanup_buffers ==
    /\ Running("cleanup_buffers")
    /\ encode_buffer_left' = NULL /\ encode_buffer_right' = NULL
    /\ mp3_accumulator' = NULL
    /\ decode_pcm_left' = NULL /\ decode_pcm_right' = NULL
    /\ output_ring_left' = NULL /\ output_ring_right' = NULL
    /\ encode_buffer_fill' = 0
    /\ mp3_accumulator_fill' = 0
    /\ ring_write_pos' = 0
    /\ ring_read_pos' = 0
    /\ ctl_pc' = "init_codec"
    /\ UNCHANGED <<obj_cfg, obj_codec, initialized, ring_size, obj_lat,
                   ctl_msg, old_quality, init_caller, init_result, msgs,
                   slept, rt_side,
                   analysis_outlet>>
    /\ ctl_hist' = [ctl_hist EXCEPT
           !.freed = IF output_ring_left = NULL /\ output_ring_right = NULL
                     THEN @
                     ELSE <<output_ring_left, output_ring_right>>]

\* lines 237-347: lame_init, the settings, lame_init_params and
\* hip_decode_init.  What the engine answers:
\*   "ok"        every call succeeds
\*   "no_lame"   lame_init returns NULL (line 238)
\*   "rejected"  lame_init_params returns a negative value (line 310)
\*   "no_hip"    hip_decode_init returns NULL (line 342)
EngineAnswers == {"ok", "no_lame", "rejected", "no_hip"}

\* line 312: the condition under which a rejected configuration is tried
\* again at 32 kbps
FallbackApplies(q) == QUALITY_BITRATES[q + 1] <= 16

\* lines 314-315: the encoder of the 32 kbps attempt
FallbackEncoder(q, en, sr, d) ==
    [NewEncoder(q, en, sr, d) EXCEPT !.brate = 32, !.lowpass = 6000]

\* What lame_init_params returned to the calls of lines 310 and 317
ParamsAnswers(answer, again, retried) ==
    IF answer = "no_lame" THEN <<>>
    ELSE IF answer # "rejected" THEN <<TRUE>>
    ELSE IF retried THEN <<FALSE, again>> ELSE <<FALSE>>

\* `again` is the engine's answer to the second lame_init_params (line 317)
init_codec(answer, again, d) ==
    /\ Running("init_codec")
    /\ LET retried == answer = "rejected" /\ FallbackApplies(quality)
           built == answer = "ok" \/ (retried /\ again)
       IN  /\ IF built
              THEN /\ gfp' = IF retried
                             THEN FallbackEncoder(quality, enable,
                                                  sample_rate, d)
                             ELSE NewEncoder(quality, enable, sample_rate, d)
                   /\ hip' = NewDecoder
                   /\ ctl_pc' = "init_buffers"
                   /\ UNCHANGED init_result
              ELSE /\ gfp' = NULL
                   /\ hip' = NULL
                   /\ init_result' = -1
                   /\ ctl_pc' = "returned"
           /\ ctl_hist' =
                 [(IF built THEN ctl_hist
                   ELSE Reporting(ctl_hist, "init_processor"))
                  EXCEPT !.params = ParamsAnswers(answer, again, retried)]
    /\ UNCHANGED <<obj_cfg, initialized, obj_bufs, obj_lat, ctl_msg,
                   old_quality, init_caller, msgs, slept, rt_side,
                   analysis_outlet>>

\* a stand-in for AllocRing: the block is not cleared, and is the one
\* cleanup_processor has just freed
AllocRingUncleared(old, size) ==
    IF old = NULL THEN NewPtrClear(size) ELSE old

\* lines 358-359: a ring of size samples from sysmem_newptrclear; old is
\* what the ring freed before it held
AllocRing(old, size) == NewPtrClear(size)

\* lines 337-358: the buffers, zero-filled, and the positions
init_buffers ==
    /\ Running("init_buffers")
    /\ encode_buffer_left' = NewPtrClear(PCM_BUFFER_SIZE)
    /\ encode_buffer_right' = NewPtrClear(PCM_BUFFER_SIZE)
    /\ mp3_accumulator' = NewPtrClear(DECODE_BUFFER_SIZE)
    /\ decode_pcm_left' = NewPtrClear(PCM_BUFFER_SIZE)
    /\ decode_pcm_right' = NewPtrClear(PCM_BUFFER_SIZE)
    /\ ring_size' = MP3_FRAME_SIZE * 4
    /\ output_ring_left' = AllocRing(ctl_hist.freed[1], MP3_FRAME_SIZE * 4)
    /\ output_ring_right' = AllocRing(ctl_hist.freed[2], MP3_FRAME_SIZE * 4)
    /\ encode_buffer_fill' = 0
    /\ mp3_accumulator_fill' = 0
    /\ ring_write_pos' = 0
    /\ ring_read_pos' = 0
    /\ ctl_pc' = "init_publish"
    /\ hist' = [hist EXCEPT !.written = {}]
    /\ UNCHANGED <<obj_cfg, obj_codec, initialized, obj_lat, ctl_msg,
                   old_quality, init_caller, init_result, msgs, slept,
                   in_pos, rt_vars, calls_left, fault,
                   analysis_outlet, ctl_hist>>

\* lines 360-382: the latency summary, then the flag
init_publish ==
    /\ Running("init_publish")
    /\ latency' = LatencyOf(gfp)
    /\ decode_delay_compensation' = 0
    /\ initialized' = 1
    /\ init_result' = 0
    /\ ctl_pc' = "returned"
    /\ UNCHANGED <<obj_cfg, obj_codec, obj_bufs, ctl_msg, old_quality,
                   init_caller, msgs, slept, rt_side,
                   analysis_outlet, ctl_hist>>

\* In the two-thread specification the host's blocks end inside a frame
\* or complete one, the encoder returns nothing or a full buffer and the
\* decoder nothing or one frame.
LiveBlockSizes == {1, MP3_FRAME_SIZE + 1}
LiveEncodeResults == {0, MP3_BUFFER_SIZE}
LiveDecodeResults == {0, MP3_FRAME_SIZE}

Next ==
    \/ \E n \in LiveBlockSizes : perform64_enter(n)
    \/ perform64_bypass
    \/ perform64_check_buffers
    \/ perform64_copy
    \/ perform64_frame_check
    \/ \E r \in LiveEncodeResults : perform64_encode(r)
    \/ perform64_accumulate
    \/ \E r \in LiveDecodeResults : perform64_decode(r)
    \/ perform64_output
    \/ perform64_crash
    \/ \E n \in QualityArgs : mp3codec_quality(n)
    \/ mp3codec_reset
    \/ \E n \in ToggleArgs : mp3codec_lowpass(n)
    \/ \E n \in ToggleArgs : mp3codec_highpass(n)
    \/ \E n \in ToggleArgs : mp3codec_msstereo(n)
    \/ \E n \in ToggleArgs : mp3codec_athonly(n)
    \/ \E n \in ToggleArgs : mp3codec_experimental(n)
    \/ \E n \in ToggleArgs : mp3codec_emphasis(n)
    \/ \E sr \in SampleRates : mp3codec_dsp64(sr)
    \/ \E n \in BypassArgs : mp3codec_bypass(n)
    \/ mp3codec_latency
    \/ systhread_sleep
    \/ mp3codec_quality_apply
    \/ mp3codec_quality_restore
    \/ handler_return
    \/ cleanup_codec
    \/ cleanup_buffers
    \/ \E answer \in EngineAnswers, again \in BOOLEAN, d \in EncoderDelays :
          init_codec(answer, again, d)
    \/ init_buffers
    \/ init_publish

Spec == Init /\ [][Next]_vars

\* Two control messages in a row, handled while the host makes one call
\* of perform64; of the six toggles, which differ in the flag they store
\* only, the low-pass one.
MaxCtlMsgs == 2

NextCtl ==
    \/ \E n \in LiveBlockSizes : perform64_enter(n)
    \/ perform64_bypass
    \/ perform64_check_buffers
    \/ perform64_copy
    \/ perform64_frame_check
    \/ \E r \in LiveEncodeResults : perform64_encode(r)
    \/ perform64_accumulate
    \/ \E r \in LiveDecodeResults : perform64_decode(r)
    \/ perform64_output
    \/ perform64_crash
    \/ \E n \in QualityArgs : mp3codec_quality(n)
    \/ mp3codec_reset
    \/ \E n \in ToggleArgs : mp3codec_lowpass(n)
    \/ \E sr \in SampleRates : mp3codec_dsp64(sr)
    \/ \E n \in BypassArgs : mp3codec_bypass(n)
    \/ mp3codec_latency
    \/ systhread_sleep
    \/ mp3codec_quality_apply
    \/ mp3codec_quality_restore
    \/ handler_return
    \/ cleanup_codec
    \/ cleanup_buffers
    \/ \E answer \in EngineAnswers, again \in BOOLEAN, d \in EncoderDelays :
          init_codec(answer, again, d)
    \/ init_buffers
    \/ init_publish

InitCtl == Constructed /\ calls_left = 1 /\ msgs = MaxMsgs - MaxCtlMsgs

SpecCtl == InitCtl /\ [][NextCtl]_vars

\* The grace period as it is meant to work: systhread_sleep(50) returns
\* only when no call of perform64 is in flight, so a call that was running
\* when the flag was cleared has returned.  The host's dsp64 call, which
\* does not sleep, is left out, and with it the accesses to destroyed
\* memory.
systhread_sleep_outlasts_call ==
    /\ rt_pc = "idle"
    /\ systhread_sleep

NextGrace ==
    \/ \E n \in LiveBlockSizes : perform64_enter(n)
    \/ perform64_bypass
    \/ perform64_check_buffers
    \/ perform64_copy
    \/ perform64_frame_check
    \/ \E r \in LiveEncodeResults : perform64_encode(r)
    \/ perform64_accumulate
    \/ \E r \in LiveDecodeResults : perform64_decode(r)
    \/ perform64_output
    \/ \E n \in QualityArgs : mp3codec_quality(n)
    \/ mp3codec_reset
    \/ \E n \in ToggleArgs : mp3codec_lowpass(n)
    \/ \E n \in ToggleArgs : mp3codec_highpass(n)
    \/ \E n \in ToggleArgs : mp3codec_msstereo(n)
    \/ \E n \in ToggleArgs : mp3codec_athonly(n)
    \/ \E n \in ToggleArgs : mp3codec_experimental(n)
    \/ \E n \in ToggleArgs : mp3codec_emphasis(n)
    \/ \E n \in BypassArgs : mp3codec_bypass(n)
    \/ mp3codec_latency
    \/ systhread_sleep_outlasts_call
    \/ mp3codec_quality_apply
    \/ mp3codec_quality_restore
    \/ handler_return
    \/ cleanup_codec
    \/ cleanup_buffers
    \/ \E answer \in EngineAnswers, again \in BOOLEAN, d \in EncoderDelays :
          init_codec(answer, again, d)
    \/ init_buffers
    \/ init_publish

SpecGrace == Init /\ [][NextGrace]_vars

\* The real-time thread alone: the pipeline with no control message.
NextRT ==
    \/ \E n \in BlockSizes : perform64_enter(n)
    \/ perform64_bypass
    \/ perform64_check_buffers
    \/ perform64_copy
    \/ perform64_frame_check
    \/ \E r \in EncodeResults : perform64_encode(r)
    \/ perform64_accumulate
    \/ \E r \in DecodeResults : perform64_decode(r)
    \/ perform64_output

InitRT == Constructed /\ calls_left = -1 /\ msgs = 0

SpecRT == InitRT /\ [][NextRT]_vars

\* Steady state: an initialized pipeline, not bypassed, whose encoder
\* returns a chunk for every frame and whose decoder returns one frame for
\* every chunk; the host's blocks go up to five frames.
SteadyBlockSizes == {1, MP3_FRAME_SIZE, 5 * MP3_FRAME_SIZE}

NextSteady ==
    \/ \E n \in SteadyBlockSizes : perform64_enter(n)
    \/ perform64_bypass
    \/ perform64_check_buffers
    \/ perform64_copy
    \/ perform64_frame_check
    \/ perform64_encode(MP3_BUFFER_SIZE)
    \/ perform64_accumulate
    \/ perform64_decode(MP3_FRAME_SIZE)
    \/ perform64_output

InitSteady == InitRT /\ initialized = 1 /\ bypass = 0

SpecSteady == InitSteady /\ [][NextSteady]_vars

\* The real-time thread under the host's schedule: the host goes on calling
\* perform64 with samples, every step of a call is taken, and the encoder
\* goes on returning chunks.  Nothing obliges the decoder to return
\* anything but 0.
NextResync ==
    \/ \E n \in LiveBlockSizes : perform64_enter(n)
    \/ perform64_bypass
    \/ perform64_check_buffers
    \/ perform64_copy
    \/ perform64_frame_check
    \/ \E r \in LiveEncodeResults : perform64_encode(r)
    \/ perform64_accumulate
    \/ \E r \in DecodeResults : perform64_decode(r)
    \/ perform64_output

SpecResync ==
    /\ InitRT
    /\ [][NextResync]_vars
    /\ WF_vars(NextResync)
    /\ SF_vars(perform64_encode(MP3_BUFFER_SIZE))

\* ================================================================ claims
\* The stream position of sample i of the frame the real-time thread has
\* just completed.
FramePos(i) == ins_base + samples_processed - MP3_FRAME_SIZE + i

\* C3: frames given to the encoder are whole and in order.  At every call
\* boundary the samples accepted and not yet encoded are exactly the
\* encode-buffer fill, which is less than a frame (so block sizes summing
\* to k frames have had exactly k frames encoded); a frame reaches the
\* encoder only when the fill is exactly MP3_FRAME_SIZE, and it then holds
\* MP3_FRAME_SIZE consecutive input samples times the input gain, in
\* stream order, which the encoder receives converted to shorts.
C3_WholeFramesInOrder ==
    /\ rt_pc = "idle" =>
          /\ hist.pending = encode_buffer_fill
          /\ encode_buffer_fill \in 0..(MP3_FRAME_SIZE - 1)
    /\ rt_pc = "encode" =>
          /\ encode_buffer_fill = MP3_FRAME_SIZE
          /\ \A i \in 0..(MP3_FRAME_SIZE - 1) :
                /\ encode_buffer_left[i] = InL(FramePos(i)) * input_gain
                /\ encode_buffer_right[i] = InR(FramePos(i)) * input_gain
    /\ rt_pc = "accumulate" =>
          \A i \in 0..(MP3_FRAME_SIZE - 1) :
             /\ pcm_left[i] = float_to_short(InL(FramePos(i)) * input_gain)
             /\ pcm_right[i] = float_to_short(InR(FramePos(i)) * input_gain)

\* C3 witness: a frame that began in an earlier call is complete and about
\* to be encoded, and one of its samples clips in the conversion.
C3_Witness ==
    /\ rt_pc = "encode"
    /\ samples_processed \in 1..(MP3_FRAME_SIZE - 1)
    /\ \E i \in 0..(MP3_FRAME_SIZE - 1) : encode_buffer_left[i] > SHORT_MAX

\* The iteration has written the ring once, sampleframes samples without
\* wrapping, and its output loop is about to read as many.
OneWriteThenRead ==
    /\ rt_pc = "output"
    /\ sampleframes > 0
    /\ hist.it.writes = 1
    /\ hist.it.count = sampleframes
    /\ hist.it.wstart + sampleframes <= ring_size

\* The output loop returns the samples of the decode buffer, in order,
\* with the output gain applied.
ReadReturnsWritten ==
    \A i \in 0..(sampleframes - 1) :
       /\ outs_left'[i] = short_to_float(decode_pcm_left[i]) * output_gain
       /\ outs_right'[i] = short_to_float(decode_pcm_right[i]) * output_gain

\* C7 as stated: from any reachable ring state a write of n samples
\* followed at once by a read of n samples, with no wrap, returns the
\* samples just written, in order.
C7_WriteThenReadAnyState == [][OneWriteThenRead => ReadReturnsWritten]_vars

\* C7 amended: the same, from the states in which the read cursor equals
\* the write cursor when the write begins.
C7_WriteThenReadSameCursor ==
    [][OneWriteThenRead /\ hist.it.wstart = hist.it.rstart
          => ReadReturnsWritten]_vars

\* C7 witness: such a write and read have happened, away from the start of
\* the ring.
C7_Witness ==
    /\ rt_pc = "idle"
    /\ hist.echo
    /\ ring_read_pos \notin {0, sampleframes}

\* C8: the accumulator and the ring follow the decode result.  A count
\* above 0 empties the accumulator and appends exactly that many samples
\* at the write cursor; 0 leaves the fill and the ring as they are; a
\* negative count empties the accumulator and leaves the ring as it is.
C8_AccumulatorFollowsDecode ==
    [][rt_pc = "decode" /\ rt_pc' = "loop" =>
          LET r == hist'.result
              Written == {(ring_write_pos + i) % ring_size : i \in 0..(r - 1)}
          IN  /\ r > 0 =>
                    /\ mp3_accumulator_fill' = 0
                    /\ ring_write_pos' = (ring_write_pos + r) % ring_size
                    /\ \A i \in 0..(r - 1) :
                          /\ output_ring_left'[(ring_write_pos + i) % ring_size]
                                = short_to_float(decode_pcm_left'[i])
                          /\ output_ring_right'[(ring_write_pos + i) % ring_size]
                                = short_to_float(decode_pcm_right'[i])
                    /\ \A c \in (0..(ring_size - 1)) \ Written :
                          /\ output_ring_left'[c] = output_ring_left[c]
                          /\ output_ring_right'[c] = output_ring_right[c]
              /\ r = 0 =>
                    /\ mp3_accumulator_fill' = mp3_accumulator_fill
                    /\ UNCHANGED <<output_ring_left, output_ring_right,
                                   ring_write_pos>>
              /\ r < 0 =>
                    /\ mp3_accumulator_fill' = 0
                    /\ UNCHANGED <<output_ring_left, output_ring_right,
                                   ring_write_pos>>]_vars

\* C8 witness: a decode has returned samples for an accumulator of more
\* than one chunk, and the write wrapped to the start of the ring.
C8_Witness ==
    /\ hist.step = "decode"
    /\ hist.result > 0
    /\ mp3_accumulator_fill = 0
    /\ ring_write_pos = 0
    /\ mp3_accumulator[MP3_BUFFER_SIZE - 1] # 0

\* C9: the accumulator fill never exceeds DECODE_BUFFER_SIZE, and a chunk
\* that would take it over the capacity is dropped whole: the bytes and the
\* fill stay as they are and the iteration goes on to its decode attempt.
C9_AccumulatorBounded ==
    /\ [](mp3_accumulator_fill <= DECODE_BUFFER_SIZE)
    /\ [][rt_pc = "accumulate"
             /\ mp3_accumulator_fill + mp3_bytes > DECODE_BUFFER_SIZE
          => /\ UNCHANGED <<mp3_accumulator, mp3_accumulator_fill>>
             /\ rt_pc' = "decode"]_vars

\* C9 witness: a chunk that did not fit has been dropped.
C9_Witness ==
    /\ hist.step = "drop"
    /\ rt_pc = "decode"
    /\ mp3_accumulator_fill > 0
    /\ mp3_accumulator_fill + mp3_bytes > DECODE_BUFFER_SIZE

\* A handle or a buffer of the object is destroyed in this step.
Destroys ==
    \/ gfp # NULL /\ gfp' = NULL
    \/ hip # NULL /\ hip' = NULL
    \/ encode_buffer_left # NULL /\ encode_buffer_left' = NULL
    \/ encode_buffer_right # NULL /\ encode_buffer_right' = NULL
    \/ mp3_accumulator # NULL /\ mp3_accumulator' = NULL
    \/ decode_pcm_left # NULL /\ decode_pcm_left' = NULL
    \/ decode_pcm_right # NULL /\ decode_pcm_right' = NULL
    \/ output_ring_left # NULL /\ output_ring_left' = NULL
    \/ output_ring_right # NULL /\ output_ring_right' = NULL

\* C1: under every interleaving of a real-time iteration with a
\* reconfiguration, the real-time thread never reads or writes an encode
\* buffer, accumulator, decode buffer, ring buffer or codec handle that has
\* been destroyed or is not yet built.
C1_NoAccessToDestroyed == fault = FALSE

\* C2: every reconfiguration entry point, mp3codec_dsp64 included, destroys
\* a codec handle or a buffer only after `initialized` has been cleared and
\* the grace period has elapsed, and sets `initialized` only after all of
\* them have been built.
C2_GraceBeforeDestroy ==
    [][/\ Destroys => (initialized = 0 \/ initialized' = 0) /\ slept
       /\ (ctl_pc = "init_publish" /\ initialized' = 1) =>
             /\ gfp # NULL /\ hip # NULL
             /\ encode_buffer_left # NULL /\ encode_buffer_right # NULL
             /\ mp3_accumulator # NULL
             /\ decode_pcm_left # NULL /\ decode_pcm_right # NULL
             /\ output_ring_left # NULL /\ output_ring_right # NULL]_vars

\* A perform64 call begins in this step.
Entered == rt_pc = "idle" /\ calls_left' # calls_left

C5_UntouchedWhenUninitialized ==
    [][Entered /\ initialized = 0 =>
          /\ UNCHANGED <<gfp, hip, encode_buffer_left, encode_buffer_right,
                         encode_buffer_fill, mp3_accumulator,
                         mp3_accumulator_fill, decode_pcm_left,
                         decode_pcm_right, output_ring_left,
                         output_ring_right, ring_write_pos, ring_read_pos>>
          /\ rt_pc' = "idle"]_vars

\* C5 witness: a silent iteration has run over a pipeline that holds part
\* of a frame and undecoded bytes.
C5_Witness ==
    /\ hist.step = "silence_uninit"
    /\ encode_buffer_fill > 0
    /\ mp3_accumulator_fill > 0
    /\ output_ring_left # NULL

\* C6: at the 1:1 rate the write cursor never laps the read cursor: the
\* ring samples written and not yet read never exceed the ring capacity,
\* whatever the host's block size.
C6_WriteNeverLapsRead ==
    (initialized = 1 /\ bypass = 0 /\ hist.steady) => hist.lead <= ring_size

Reconfigurations == {"quality", "reset"} \cup ToggleNames

\* The handler of a reconfiguring message returns, and a build it made has
\* failed.
FailedReconfigurationEnds ==
    /\ ctl_pc # "idle"
    /\ ctl_pc' = "idle"
    /\ ctl_msg[1] \in Reconfigurations
    /\ "init_processor" \in ctl_hist'.errors

\* C11: when a build fails during a quality change, a toggle flip or a
\* reset, the handler stores the previous configuration again and builds
\* once more, so it has built twice when it returns and the configuration
\* is the one it found; the pipeline is then initialized if the second
\* build succeeded, and uninitialized with an error reported if not.
C11_RestoreAndRebuildOnce ==
    [][FailedReconfigurationEnds =>
          /\ ctl_hist'.builds = 2
          /\ obj_cfg' = ctl_hist'.before
          /\ IF init_result' = 0
             THEN initialized' = 1
             ELSE initialized' = 0 /\ ctl_hist'.errors # {}]_vars

\* C12: from the failure of a build until the next build that succeeds
\* (init_processor's last result is negative all that time) the flag
\* `initialized` stays clear, so every call of perform64 takes the silent
\* return; no message sets the flag in between.
C12_FailedStaysUninitialized == init_result < 0 => initialized = 0

\* init_processor has gone through lame_init .. hip_decode_init.
CodecStepTaken == ctl_pc = "init_codec" /\ ctl_pc' # "init_codec"

\* C13: whatever the quality, when lame_init_params rejects the
\* configuration init_processor calls it a second time, for the 32 kbps
\* fallback, and returns failure only if that call is rejected too.
C13_FallbackOnceBeforeFailure ==
    [][CodecStepTaken /\ ctl_hist'.params # <<>>
          /\ ~ctl_hist'.params[1] =>
          /\ Len(ctl_hist'.params) = 2
          /\ ctl_pc' = "returned" => ~ctl_hist'.params[2]]_vars

\* A step of the handler of a quality message whose clamped value is the
\* quality the handler found.
UnchangedQualityStep ==
    /\ ctl_pc' # ctl_pc
    /\ ctl_msg'[1] = "quality"
    /\ CLAMP(ctl_msg'[2], 0, 9) = ctl_hist'.before[1]

\* C14: a quality message whose clamped value equals the current quality
\* never calls init_processor, and none of its steps changes the codec
\* handles, a buffer, the encode fill, the accumulator fill or a ring
\* cursor.
C14_UnchangedQualityIsNoOp ==
    [][UnchangedQualityStep =>
          /\ ctl_hist'.builds = 0
          /\ UNCHANGED <<obj_codec, obj_bufs>>]_vars

\* C14 witness: such a message has been handled on a built pipeline that
\* holds part of a frame.
C14_Witness ==
    /\ ctl_pc = "idle"
    /\ ctl_msg[1] = "quality"
    /\ CLAMP(ctl_msg[2], 0, 9) = ctl_hist.before[1]
    /\ gfp # NULL
    /\ initialized = 1
    /\ encode_buffer_fill > 0

\* C15: when init_processor completes, `initialized` is set and the stored
\* total latency is the frame size plus the encoder delay of the encoder
\* just built plus the decoder delay; and whenever the latency query sends
\* the summary some build has stored, its encoder delay is the delay of
\* the encoder in place, never that of an earlier build.
C15_LatencyOfActiveBuild ==
    [][/\ ctl_pc = "init_publish" /\ ctl_pc' = "returned" =>
             /\ initialized' = 1
             /\ latency'.total_latency_samples =
                   MP3_FRAME_SIZE + gfp'.delay + HIP_DECODER_DELAY
       /\ analysis_outlet' # analysis_outlet /\ latency # NoLatency =>
             /\ gfp # NULL
             /\ analysis_outlet'[3] = gfp.delay]_vars

\* The block the call has written is its input block, sample for sample,
\* times the input gain times the output gain.
InputTimesGains ==
    /\ DOMAIN outs_left = 0..(sampleframes - 1)
    /\ DOMAIN outs_right = 0..(sampleframes - 1)
    /\ \A i \in 0..(sampleframes - 1) :
          /\ outs_left[i] = InL(ins_base + i) * input_gain * output_gain
          /\ outs_right[i] = InR(ins_base + i) * input_gain * output_gain

\* A call of perform64 returns.
ReturnsFromCall ==
    /\ rt_pc' = "idle"
    /\ <<in_pos, rt_vars>>' # <<in_pos, rt_vars>>

\* C16 as stated: every call of perform64 that returns while bypass is set
\* has written its input times both gains, index for index.
C16_BypassAlwaysPassesInput ==
    [][ReturnsFromCall /\ bypass # 0 => InputTimesGains']_vars

\* C16 amended: a call that has found `initialized` set at its top check
\* and then finds bypass set returns at once, having written its input
\* times both gains, index for index.
C16_BypassPassesInputWhenInitialized ==
    [][rt_pc = "bypass_check" /\ rt_pc' # rt_pc /\ bypass # 0 =>
          rt_pc' = "idle" /\ InputTimesGains']_vars

\* C16 witness: a bypassed call has returned a block holding a sample
\* that is not zero.
C16_Witness ==
    /\ rt_pc = "idle"
    /\ hist.step = "bypass"
    /\ bypass # 0
    /\ InputTimesGains
    /\ \E i \in 0..(sampleframes - 1) : outs_left[i] # 0

\* C18: a call of perform64 that, after its top check, finds a NULL buffer
\* pointer, or finds the flag clear or a codec handle NULL when a frame
\* is complete, returns with zero in every sample of its block on both
\* channels (calls that read destroyed memory set aside).
C18_SilenceOnInvalidState ==
    [][(/\ ReturnsFromCall
        /\ hist'.step \in {"silence_nullbuf", "output_after_break"}
        /\ ~fault') =>
          /\ outs_left' = Silence(sampleframes')
          /\ outs_right' = Silence(sampleframes')]_vars

\* C19: no step writes the quality, a toggle, bypass or a gain while
\* `initialized` is set: every such write finds the flag already clear.
C19_ConfigWrittenOnlyWhenCleared ==
    [][<<quality, enable, bypass, input_gain, output_gain>>'
          # <<quality, enable, bypass, input_gain, output_gain>>
          => initialized = 0]_vars

\* Which handles and buffers of the object are in place.
InPlace ==
    <<gfp # NULL, hip # NULL,
      encode_buffer_left # NULL, encode_buffer_right # NULL,
      mp3_accumulator # NULL,
      decode_pcm_left # NULL, decode_pcm_right # NULL,
      output_ring_left # NULL, output_ring_right # NULL>>

AllInPlace == \A k \in 1..Len(InPlace) : InPlace[k]

\* With a grace period that outlasts the calls in flight, a handle or
\* buffer is destroyed or assigned only while no call of perform64 is
\* running, and no call reads or writes a destroyed one.
NoCallDuringRebuild ==
    /\ InPlace' # InPlace => rt_pc = "idle"
    /\ ~TouchesDestroyed
    /\ ~fault'

\* C20: if every call of perform64 in flight when `initialized` was
\* cleared has returned when the grace period ends, a quality, toggle or
\* reset message never destroys or rebuilds a buffer or codec handle that
\* a call is using, and `initialized` goes from clear to set only when
\* every handle and buffer is in place.
C20_GraceProtectsRebuild ==
    [][/\ NoCallDuringRebuild
       /\ initialized = 0 /\ initialized' = 1 => AllInPlace']_vars

\* C21: both ring cursors lie in 0..ring size - 1, the ring size being
\* four frames; between two calls of perform64 the encode-buffer fill is
\* less than a frame, and inside a call it never exceeds a frame, so the
\* copy of lines 516-521 stays inside the encode buffer and the write of
\* lines 595-598 inside the ring.
C21_CursorsAndFillInRange ==
    /\ ring_write_pos \in 0..(MP3_FRAME_SIZE * 4 - 1)
    /\ ring_read_pos \in 0..(MP3_FRAME_SIZE * 4 - 1)
    /\ output_ring_left # NULL =>
          /\ ring_size = MP3_FRAME_SIZE * 4
          /\ ring_write_pos \in DOMAIN output_ring_left
          /\ ring_read_pos \in DOMAIN output_ring_left
    /\ encode_buffer_fill \in 0..MP3_FRAME_SIZE
    /\ rt_pc = "idle" => encode_buffer_fill \in 0..(MP3_FRAME_SIZE - 1)
    /\ (rt_pc = "loop" /\ encode_buffer_left # NULL) =>
          encode_buffer_fill
             + SamplesToCopy(sampleframes, samples_processed,
                             encode_buffer_fill) - 1
                \in -1..(MP3_FRAME_SIZE - 1)

\* C21 witness: inside a call the frame is full, after the write cursor
\* has gone round the ring and the read cursor stands on the last cell.
C21_Witness ==
    /\ rt_pc = "frame_check"
    /\ encode_buffer_fill = MP3_FRAME_SIZE
    /\ ring_read_pos = ring_size - 1
    /\ ring_write_pos < hist.it.wstart

\* C22: whenever `initialized` is set, the encoder handle, the decoder
\* handle, both encode buffers, the byte accumulator, both decode buffers
\* and both ring buffers are in place.
C22_InitializedImpliesBuilt == initialized = 1 => AllInPlace

\* the sample with tag b left the decoder after the one with tag a, less
\* than one lap of the ring later (the tags repeat every DecPeriod samples,
\* two laps of the ring)
DecodedAfter(a, b) == ((b - a) % DecPeriod) \in 1..(MP3_FRAME_SIZE * 4 - 1)

\* the ring cell the i-th read of an output loop started at rpos takes
CellRead(rpos, i, size) == (rpos + i) % size

\* C23: between two reconfigurations the ring is a FIFO towards the host:
\* of any two decoded samples one output loop emits, the one emitted later
\* was decoded later (so they come in decode order and none comes twice)
C23_EmittedInDecodeOrder ==
    [][(/\ rt_pc = "output" /\ rt_pc' = "idle"
        /\ ~fault' /\ output_ring_left # NULL)
       => \A i, j \in 0..(sampleframes - 1) :
             LET a == output_ring_left[CellRead(ring_read_pos, i, ring_size)]
                 b == output_ring_left[CellRead(ring_read_pos, j, ring_size)]
             IN  (i < j /\ a # 0 /\ b # 0)
                    => /\ DecodedAfter(a, b)
                       /\ outs_left'[i] = a * output_gain
                       /\ outs_left'[j] = b * output_gain]_vars

\* C24: delay compensation is off in every initialized state, and every
\* output loop that runs on live rings reads a sample for each index of
\* the block, so it moves the read cursor by sampleframes modulo ring_size
\* whatever lies between the cursors
C24_ReadCursorAdvancesByBlock ==
    [][/\ initialized' = 1 => decode_delay_compensation' = 0
       /\ (/\ rt_pc = "output" /\ rt_pc' = "idle"
           /\ output_ring_left # NULL /\ output_ring_right # NULL)
          => /\ ring_read_pos' = (ring_read_pos + sampleframes) % ring_size
             /\ \A i \in 0..(sampleframes - 1) :
                   outs_left'[i] =
                      output_ring_left[CellRead(ring_read_pos, i, ring_size)]
                         * output_gain]_vars

\* an output loop has read a whole block from a ring that no decode has
\* written yet (nothing available)
C24_Witness ==
    /\ initialized = 1 /\ bypass = 0
    /\ rt_pc = "idle" /\ hist.step = "output" /\ ~fault
    /\ sampleframes > 1
    /\ ring_write_pos = 0
    /\ ring_read_pos = sampleframes
    /\ output_ring_left = NewPtrClear(MP3_FRAME_SIZE * 4)

\* the places of the real-time thread inside the loop of lines 507-626,
\* ranked by the steps a pass still has to make from there
InLoop == {"loop", "frame_check", "encode", "accumulate", "decode"}
LoopRank(pc) ==
    CASE pc = "frame_check" -> 4
      [] pc = "encode" -> 3
      [] pc = "accumulate" -> 2
      [] pc = "decode" -> 1
      [] OTHER -> 0

\* a step of the real-time thread taken inside the loop, not a crash
LoopStep ==
    /\ rt_pc \in InLoop /\ rt_pc' # "crashed"
    /\ <<rt_pc, samples_processed, hist>>' # <<rt_pc, samples_processed, hist>>

\* C25: the loop of a real-time iteration terminates for every block size
\* and fill: a pass copies at least one input sample or leaves the loop, the
\* steps of a pass are finitely many, the samples copied never exceed the
\* block, and the loop is left at its test only with the whole block copied
C25_LoopTerminates ==
    [][/\ rt_pc' \in InLoop => samples_processed' \in 0..sampleframes'
       /\ LoopStep =>
            \/ /\ rt_pc = "loop" /\ rt_pc' \in {"loop", "frame_check"}
               /\ samples_processed' > samples_processed
            \/ /\ rt_pc' \in InLoop
               /\ samples_processed' = samples_processed
               /\ LoopRank(rt_pc') < LoopRank(rt_pc)
            \/ /\ rt_pc = "loop" /\ rt_pc' = "output"
               /\ samples_processed = sampleframes
               /\ samples_processed' = sampleframes
            \/ /\ rt_pc = "frame_check" /\ rt_pc' = "output"
               /\ hist'.step = "break"]_vars

\* the loop was left at its test after more than one pass: the block was
\* longer than a frame, and a frame was under way when it came
C25_Witness ==
    /\ rt_pc = "output" /\ hist.step = "loop_exit"
    /\ sampleframes = MP3_FRAME_SIZE + 1
    /\ samples_processed = sampleframes
    /\ encode_buffer_fill = 0
    /\ ~fault

\* the call that was under way when the flag was last cleared is still
\* under way, and has completed the frame it is at after the flag was
\* cleared (it has copied input since)
FrameAfterClear ==
    /\ rt_pc \in {"frame_check", "encode", "accumulate", "decode"}
    /\ ctl_hist.during # NoCall
    /\ ctl_hist.during[1] = calls_left
    /\ ctl_hist.during[2] < samples_processed

\* C26: a real-time iteration under way when the control thread clears
\* `initialized` encodes and decodes no frame it completes after that: at
\* the frame check it discards the frame (fill 0) and leaves the loop, so
\* no more input of the block is consumed
C26_NoCodecCallAfterClear ==
    [][(FrameAfterClear /\ rt_pc' # rt_pc)
          => /\ rt_pc = "frame_check" /\ rt_pc' = "output"
             /\ hist'.step = "break"
             /\ encode_buffer_fill' = 0
             /\ samples_processed' = samples_processed]_vars

\* C27: when lame_encode_buffer returns 0 for a completed frame the
\* iteration goes back to the loop test: nothing is appended or decoded
\* (accumulator, its fill, the decoder, the ring and its write cursor are
\* as before), yet the encode-buffer fill is 0; the append and the decode
\* are only ever reached with a chunk of at least one byte
C27_EmptyChunkSkipsDecode ==
    [][/\ (/\ rt_pc = "encode" /\ rt_pc' \notin {"encode", "crashed"}
           /\ mp3_bytes' = 0)
          => /\ rt_pc' = "loop"
             /\ encode_buffer_fill' = 0
             /\ UNCHANGED <<mp3_accumulator, mp3_accumulator_fill, hip,
                            decode_pcm_left, decode_pcm_right,
                            output_ring_left, output_ring_right,
                            ring_write_pos>>
       /\ rt_pc' \in {"accumulate", "decode"} => mp3_bytes' > 0]_vars

\* an encode call has just returned 0 for a full frame while bytes of an
\* earlier chunk were waiting in the accumulator and the ring had been
\* written
C27_Witness ==
    /\ rt_pc = "loop" /\ hist.step = "encode" /\ hist.result = 0
    /\ mp3_bytes = 0
    /\ encode_buffer_fill = 0
    /\ mp3_accumulator_fill > 0
    /\ ring_write_pos > 0
    /\ ~fault

\* init_processor returns to the handler of a reconfiguring message, with
\* the pipeline built (line 382) or not (lines 240, 326-337, 344-347)
RebuildReturns ==
    /\ ctl_msg[1] \in Reconfigurations
    /\ ctl_pc \in {"init_codec", "init_publish"}
    /\ ctl_pc' = "returned"

\* C28: when a rebuild of the pipeline returns, successful or not, the
\* encode-buffer fill, the accumulator fill and both ring cursors are 0
\* (in a run that has made no access through a destroyed buffer or handle)
C28_RebuildStartsEmpty ==
    [][(RebuildReturns /\ ~fault')
          => /\ encode_buffer_fill' = 0
             /\ mp3_accumulator_fill' = 0
             /\ ring_write_pos' = 0
             /\ ring_read_pos' = 0]_vars

\* the i-th read of the output loop about to run takes a cell that held a
\* decoded sample when the last reconfiguration freed the ring and that
\* nothing has been written to since the ring was allocated again
ReadsCellOfPriorBuild(i) ==
    /\ rt_pc = "output" /\ i \in 0..(sampleframes - 1)
    /\ decode_delay_compensation = 0
    /\ output_ring_left # NULL /\ output_ring_right # NULL
    /\ ctl_hist.freed[1] # NULL
    /\ ctl_hist.builds > 0
    /\ CellRead(ring_read_pos, i, ring_size) \notin hist.written
    /\ ctl_hist.freed[1][CellRead(ring_read_pos, i, ring_size)] # 0

\* C29 as stated: with delay compensation off, what the previous
\* configuration decoded into the ring survives the reconfiguration: a read
\* of such a cell emits the sample the cell held
C29_StaleSampleSurvivesRebuild ==
    [][(rt_pc = "output" /\ rt_pc' = "idle")
          => \A i \in 0..(sampleframes - 1) :
                ReadsCellOfPriorBuild(i)
                   => outs_left'[i] =
                         ctl_hist.freed[1][CellRead(ring_read_pos, i,
                                                    ring_size)]
                            * output_gain]_vars

\* C29, amended: no sample of the previous configuration survives: the
\* rings a reconfiguration allocates are zeroed, so a read of such a cell
\* emits silence on both channels
C29_RebuiltRingReadsSilence ==
    [][(rt_pc = "output" /\ rt_pc' = "idle")
          => \A i \in 0..(sampleframes - 1) :
                ReadsCellOfPriorBuild(i)
                   => outs_left'[i] = 0 /\ outs_right'[i] = 0]_vars

\* an output loop has read, after a reconfiguration that found no call
\* under way, the cells the previous configuration had decoded into, from
\* cursor 0 again, and emitted silence
C29_Witness ==
    /\ rt_pc = "idle" /\ hist.step = "output" /\ ~fault
    /\ initialized = 1 /\ ctl_hist.builds > 0
    /\ ctl_msg[1] \in Reconfigurations
    /\ ctl_hist.during = NoCall
    /\ ctl_hist.freed[1] # NULL
    /\ sampleframes > 0
    /\ ring_read_pos = sampleframes
    /\ hist.written = {}
    /\ \A i \in 0..(sampleframes - 1) :
          ctl_hist.freed[1][i] # 0 /\ outs_left[i] = 0

\* the state of the transcode pipeline: the codec handles, the encode
\* buffers and their fill, the accumulator and its fill, the decode buffers,
\* the rings and their cursors
Pipeline == <<obj_codec, obj_enc, obj_acc, obj_dec, obj_ring>>

\* C30: a real-time iteration that finds bypass set changes nothing of the
\* pipeline: neither its entry nor the bypass branch touches a buffer, a
\* fill or a cursor, and the iteration returns from the bypass branch
\* without reaching the loop, so what was buffered stays pending
C30_BypassLeavesPipeline ==
    [][/\ (rt_pc = "idle" /\ rt_pc' = "bypass_check") => UNCHANGED Pipeline
       /\ (rt_pc = "bypass_check" /\ bypass # 0 /\ rt_pc' # rt_pc)
             => /\ rt_pc' = "idle"
                /\ hist'.step = "bypass"
                /\ UNCHANGED Pipeline]_vars

\* an iteration has returned from the bypass branch with part of a frame
\* in the encode buffer, decoded samples in the ring and both cursors
\* advanced, all still there
C30_Witness ==
    /\ rt_pc = "idle" /\ hist.step = "bypass" /\ ~fault
    /\ bypass = 1 /\ initialized = 1
    /\ sampleframes > 0
    /\ encode_buffer_fill > 0
    /\ encode_buffer_left[0] # 0
    /\ ring_write_pos > 0 /\ ring_read_pos > 0
    /\ output_ring_left[0] # 0

====
